---- MODULE Spec2Model ----
(***************************************************************************)
(* A model of the two WebGL views of the portfolio: the ambient particle   *)
(* background (RoboticsScene) and the lit portrait (Portrait).  Both are   *)
(* React function components whose behaviour lives in useEffect hooks; an  *)
(* action of the model is one React commit (the cleanups of the effects    *)
(* whose dependencies changed, in declaration order, then those effects,   *)
(* in declaration order) or one browser callback (a resize or mousemove    *)
(* event, an animation frame, a loader completion, a spring update).       *)
(* One behaviour follows one view: `variant` is chosen in Init.            *)
(***************************************************************************)
EXTENDS Integers, Sequences, FiniteSets, TLC

VARIABLES
  variant,              \* "ambient" (RoboticsScene) or "portrait" (Portrait)
  phase,                \* "unmounted" (not yet mounted), "mounted", "disposed"
  prm,                  \* usePrefersReducedMotion()
  inView,               \* useInViewport(canvas), portrait only
  themeId,              \* currentTheme.id / themeId
  viewport,             \* window.innerWidth/innerHeight, container.clientWidth/clientHeight
  dims,                 \* width.current, height.current (ambient)
  renderer,             \* renderer.current
  camera,               \* camera.current
  scene,                \* scene.current
  canvases,             \* canvases appended to the container (ambient)
  particles,            \* particles.current: id of a particle system, 0 = undefined
  psys,                 \* the particle systems still referenced, by id
  lights,               \* lights.current (portrait)
  resizeL,              \* 'resize' listeners on window, in registration order
  resizeH,              \* handleResize of the current resize effect (portrait)
  mouseL,               \* 'mousemove' listeners on window
  mouseH,               \* onMouseMove of the current mouse effect (portrait)
  raf,                  \* pending requestAnimationFrame callbacks
  animation,            \* `animation` of the current render effect, 0 = undefined
  springs,              \* running popmotion springs, oldest first; `held` marks the
                        \* one `rotationSpring` of the current mouse effect refers to,
                        \* which is the parent action of its rotationSpringValue
  rotationSpring,       \* whether `rotationSpring` is "undefined" or a "spring"
  rotationSpringValue,  \* whether `rotationSpringValue` has been created
  envLoad,              \* envLoader.load: "none", "pending", "done"
  modelLoad,            \* modelLoader.load: "none", "pending", "done"
  log,                  \* the calls made by the last action, in order
  lastInput,            \* the last input delivered to the view
  renders,              \* renderer.render calls since the last input, saturating
  sh                    \* the shader stage's inputs and outputs

vars == <<variant, phase, prm, inView, themeId, viewport, dims, renderer,
          camera, scene, canvases, particles, psys, lights, resizeL, resizeH,
          mouseL, mouseH, raf, animation, springs, rotationSpring,
          rotationSpringValue, envLoad, modelLoad, log, lastInput, renders, sh>>

(***************************************************************************)
(* Bounds of the model.                                                    *)
(***************************************************************************)
\* instances of the particle geometry built in the model (the code builds 2000)
Instances == 2
\* render loops and resize listeners the ambient view may pile up
MaxLoops == 2
\* canvases the ambient view may append
MaxCanvases == 2
\* steps the time accumulator of one particle system may take
MaxTime == 2
\* the render counter saturates here
MaxRenders == 2
\* successive invocations of the render effect's cleanup that are tried
MaxStops == 3

Themes == {"dark", "light"}
Sizes == {<<4, 3>>, <<5, 2>>}
Seeds == {0, 1}
\* clock.getDelta() between two frames, in milliseconds
Deltas == {0, 16, 33}

(***************************************************************************)
(* Helpers.                                                                *)
(***************************************************************************)
RECURSIVE GCD(_, _)
GCD(a, b) == IF b = 0 THEN a ELSE GCD(b, a % b)

\* width / height as a fraction in lowest terms
Ratio(sz) == LET g == GCD(sz[1], sz[2]) IN <<sz[1] \div g, sz[2] \div g>>

Range(s) == {s[i] : i \in DOMAIN s}

RECURSIVE Count(_, _)
Count(x, s) == IF s = <<>> THEN 0
               ELSE (IF Head(s) = x THEN 1 ELSE 0) + Count(x, Tail(s))

\* the first index of x in s, 0 when absent
First(x, s) == IF x \in Range(s) THEN CHOOSE i \in DOMAIN s : s[i] = x /\ \A j \in 1..(i - 1) : s[j] # x
               ELSE 0

\* the last index of x in s, 0 when absent
Last(x, s) == IF x \in Range(s) THEN CHOOSE i \in DOMAIN s : s[i] = x /\ \A j \in (i + 1)..Len(s) : s[j] # x
              ELSE 0

\* an identity no live object carries
FreshId(used) == CHOOSE n \in 1..(Cardinality(used) + 1) : n \notin used

Said(w, op) == [w EXCEPT !.log = Append(@, op)]

OtherTheme(t) == IF t = "dark" THEN "light" ELSE "dark"

NoObject == [id |-> 0]

(***************************************************************************)
(* The world the effects act on: the refs and closures of one component.   *)
(***************************************************************************)
World ==
  [dims |-> dims, renderer |-> renderer, camera |-> camera, scene |-> scene,
   canvases |-> canvases, particles |-> particles, psys |-> psys,
   lights |-> lights, resizeL |-> resizeL, resizeH |-> resizeH,
   mouseL |-> mouseL, mouseH |-> mouseH, raf |-> raf, animation |-> animation,
   springs |-> springs, rotationSpring |-> rotationSpring,
   rotationSpringValue |-> rotationSpringValue, envLoad |-> envLoad,
   modelLoad |-> modelLoad, log |-> <<>>, renders |-> renders]

\* particle systems no ref and no scene reaches are collected
Live(w) == {i \in DOMAIN w.psys : i = w.particles \/ (w.scene.id # 0 /\ i = w.scene.mesh)}

Commit(w) ==
  /\ dims' = w.dims
  /\ renderer' = w.renderer
  /\ camera' = w.camera
  /\ scene' = w.scene
  /\ canvases' = w.canvases
  /\ particles' = w.particles
  /\ psys' = [i \in Live(w) |-> w.psys[i]]
  /\ lights' = w.lights
  /\ resizeL' = w.resizeL
  /\ resizeH' = w.resizeH
  /\ mouseL' = w.mouseL
  /\ mouseH' = w.mouseH
  /\ raf' = w.raf
  /\ animation' = w.animation
  /\ springs' = w.springs
  /\ rotationSpring' = w.rotationSpring
  /\ rotationSpringValue' = w.rotationSpringValue
  /\ envLoad' = w.envLoad
  /\ modelLoad' = w.modelLoad
  /\ log' = w.log
  /\ renders' = w.renders

\* renderer.render(scene.current, camera.current)
Render(w) ==
  [Said(w, "render") EXCEPT !.renders = IF @ < MaxRenders THEN @ + 1 ELSE @]

\* an input resets the count of renders made since the last input
Input(w) == [w EXCEPT !.renders = 0]

\* camera.updateProjectionMatrix(): the projection is a function of fov, aspect, near, far
UpdateProjectionMatrix(cam) ==
  [cam EXCEPT !.proj = [fov |-> cam.fov, aspect |-> cam.aspect, near |-> cam.near, far |-> cam.far]]

\* new PerspectiveCamera(fov, aspect, near, far); near and far in tenths
PerspectiveCamera(id, fov, aspect, near, far) ==
  UpdateProjectionMatrix([id |-> id, fov |-> fov, aspect |-> aspect, near |-> near,
                          far |-> far, position |-> <<0, 0, 0>>, proj |-> <<>>])

(***************************************************************************)
(* RoboticsScene: the particle system (part_000 lines 62-155).             *)
(***************************************************************************)
\* Math.random(), in tenths: the k-th draw of the stream a seed determines
Random(seed, k) == IF (seed + k) % 2 = 0 THEN 0 ELSE 5

\* new InstancedBufferAttribute(new Float32Array(len), itemSize, false, meshPerAttribute)
\* filled by the loop `for (i = 0; i < attr.count; i++) attr.setXYZW(i, ...)`:
\* count is len / itemSize, and item[i, c] is component c (from 0) of what the
\* loop body sets at index i; what the loop does not reach keeps Float32Array's 0
InstancedBufferAttribute(len, itemSize, meshPerAttribute, item) ==
  [array |-> [k \in 1..len |->
                IF k <= (len \div itemSize) * itemSize
                THEN item[(k - 1) \div itemSize, (k - 1) % itemSize]
                ELSE 0],
   itemSize |-> itemSize,
   count |-> len \div itemSize,
   meshPerAttribute |-> meshPerAttribute]

\* threeColor.setHex(hex): the r, g, b bytes of green.mainColor and orange.mainColor
MainColor(name) == IF name = "green" THEN <<142, 185, 52>> ELSE <<254, 194, 62>>

\* vector.set(r*2-1, ...); vector.normalize(): a component (in tenths) over the
\* square of the vector's length, which stands for component / sqrt(length^2)
Normalized(x, y, z, t, c) ==
  LET len2 == x * x + y * y + z * z + t * t
  IN  [num |-> <<x, y, z, t>>[c + 1], den2 |-> IF len2 = 0 THEN 1 ELSE len2]

\* the ParticleSystem constructor with the lengths of its five Float32Arrays
ParticleSystemOf(seed, nOffset, nColor, nTime, nStart, nEnd) ==
  LET \* the draws are consumed in the order of the loops
      base2 == (nOffset \div 3) * 3
      base3 == base2 + nTime
      base4 == base3 + (nStart \div 4) * 4
      offsetAt == [i \in 0..nOffset, c \in 0..3 |-> (Random(seed, i * 3 + c) - 5) * 6]
      colorAt == [i \in 0..nColor, c \in 0..3 |-> IF c = 3 THEN 1
                       ELSE MainColor(IF i % 2 = 0 THEN "green" ELSE "orange")[c + 1]]
      timeAt == [i \in 0..nTime, c \in 0..3 |-> Random(seed, base2 + i)]
      draw(b, i, c) == Random(seed, b + i * 4 + c) * 2 - 10
      startAt == [i \in 0..nStart, c \in 0..3 |->
                    Normalized(draw(base3, i, 0), draw(base3, i, 1), draw(base3, i, 2), draw(base3, i, 3), c)]
      endAt == [i \in 0..nEnd, c \in 0..3 |->
                  Normalized(draw(base4, i, 0), draw(base4, i, 1), draw(base4, i, 2), draw(base4, i, 3), c)]
  IN  [time |-> 0,
       geometry |-> [position |-> <<<<55, -55, 0>>, <<-55, 55, 0>>, <<0, 0, 55>>>>,
                     offset |-> InstancedBufferAttribute(nOffset, 3, 1, offsetAt),
                     color |-> InstancedBufferAttribute(nColor, 4, 1, colorAt),
                     timeOffset |-> InstancedBufferAttribute(nTime, 1, 1, timeAt),
                     orientationStart |-> InstancedBufferAttribute(nStart, 4, 1, startAt),
                     orientationEnd |-> InstancedBufferAttribute(nEnd, 4, 1, endAt)],
       uniforms |-> [time |-> <<"const", 5>>, sineTime |-> <<"const", 5>>],
       mesh |-> [y |-> 0, frustumCulled |-> FALSE]]

\* a constructor that allocates the color array with three floats per instance
NewParticleSystemShortColors(seed) ==
  ParticleSystemOf(seed, Instances * 3, Instances * 3, Instances * 1, Instances * 4, Instances * 4)

\* new ParticleSystem()
NewParticleSystem(seed) ==
  ParticleSystemOf(seed, Instances * 3, Instances * 4, Instances * 1, Instances * 4, Instances * 4)

\* what new ParticleSystem() returns for each stream of draws
Constructed == [seed \in Seeds |-> NewParticleSystem(seed)]

\* an update that advances the accumulator by the frame's delta
UpdateByDelta(p, dt) ==
  [p EXCEPT !.time = @ + dt, !.uniforms.time = <<"sin", p.time + dt>>]

\* update(dt): this.time += 0.0001 (one step); uniforms.time.value = Math.sin(this.time)
Update(p, dt) ==
  [p EXCEPT !.time = @ + 1, !.uniforms.time = <<"sin", p.time + 1>>]

(***************************************************************************)
(* RoboticsScene: the four effects, in declaration order.                  *)
(***************************************************************************)
\* useEffect(() => { ...; particles.current = new ParticleSystem(); }) -- no dependency list
AmbientParticleEffect(w, seed) ==
  LET id == FreshId(DOMAIN w.psys)
  IN  [Said(w, "new ParticleSystem") EXCEPT
         !.psys = (id :> Constructed[seed]) @@ w.psys,
         !.particles = id]

\* the lights of the ambient scene, from currentTheme
AmbientLights(theme) ==
  {[id |-> 1, kind |-> "ambient", color |-> <<theme, "colorPrimary">>, intensity |-> 10],
   [id |-> 2, kind |-> "directional", color |-> <<OtherTheme(theme), "colorBackground">>, intensity |-> 10]}

\* useEffect(() => { scene, camera, renderer, lights, mesh }, [currentTheme])
AmbientSceneEffect(w, theme) ==
  LET cam == PerspectiveCamera(FreshId({w.camera.id}), 60, Ratio(w.dims), 1, 600)
  IN  [Said(Said(w, "new Scene"), "new WebGLRenderer") EXCEPT
         !.scene = [id |-> FreshId({w.scene.id}), lights |-> AmbientLights(theme),
                    mesh |-> w.particles, model |-> FALSE,
                    held |-> {"particleGeometry", "particleMaterial"},
                    environment |-> FALSE, background |-> "none",
                    rotation |-> <<0, 0>>, disposed |-> FALSE],
         !.camera = [cam EXCEPT !.position = <<0, 17, 5>>],
         !.renderer = [id |-> FreshId({w.renderer.id}), size |-> w.dims,
                       clearColor |-> <<theme, "colorBackground">>, context |-> TRUE],
         !.canvases = @ + 1,
         !.psys[w.particles].mesh.y = 4]

\* handleWindowResize
HandleWindowResize(w, vp) ==
  LET w1 == [w EXCEPT !.dims = vp, !.renderer.size = vp, !.camera.aspect = Ratio(vp)]
  IN  [Said(Said(Said(w1, "setSize"), "aspect"), "updateProjectionMatrix") EXCEPT
         !.camera = UpdateProjectionMatrix(w1.camera)]

\* useEffect(() => { if (!prefersReducedMotion) addEventListener('resize', ...) }, [prefersReducedMotion])
AmbientResizeEffect(w, reduced) ==
  IF ~reduced
  THEN [Said(w, "addResizeListener") EXCEPT
          !.resizeL = Append(@, [id |-> FreshId({l.id : l \in Range(w.resizeL)}),
                                 fn |-> "handleWindowResize", prm |-> reduced])]
  ELSE w

\* window.requestAnimationFrame(fn)
RequestAnimationFrame(w, fn) ==
  [Said(w, "requestAnimationFrame") EXCEPT
     !.raf = @ \cup {[id |-> FreshId({c.id : c \in w.raf} \cup {w.animation}), fn |-> fn]}]

\* a render that draws the frame before it advances the particle system
AmbientRenderStale(w, delta) ==
  LET w1 == Render(w)
      w2 == [Said(w1, "update") EXCEPT !.psys[w.particles] = Update(@, delta)]
  IN  RequestAnimationFrame(w2, "render")

\* render: delta = clock.getDelta(), particles.current.update(delta), renderer.render,
\* requestAnimationFrame(render)
AmbientRender(w, delta) ==
  LET w1 == [Said(w, "update") EXCEPT !.psys[w.particles] = Update(@, delta)]
  IN  RequestAnimationFrame(Render(w1), "render")

\* useEffect(() => { clock = new Clock(); if (!prefersReducedMotion) render() }, [prefersReducedMotion]):
\* the first getDelta() of a new clock starts it and returns 0
AmbientRenderEffect(w, reduced) ==
  IF ~reduced THEN AmbientRender(w, 0) ELSE w

(***************************************************************************)
(* Portrait: the five effects and their cleanups, in declaration order.    *)
(***************************************************************************)
\* "Init scene and models": renderer, camera, scene, and the two loads are started
PortraitInitEffect(w, vp) ==
  LET cam == PerspectiveCamera(FreshId({w.camera.id}), 45, Ratio(vp), 1, 8000)
  IN  [Said(Said(Said(w, "new WebGLRenderer"), "setSize"), "new Scene") EXCEPT
         !.renderer = [id |-> FreshId({w.renderer.id}), size |-> vp,
                       clearColor |-> "none", context |-> TRUE],
         !.camera = [cam EXCEPT !.position = <<0, 0, 20>>],
         !.scene = [id |-> FreshId({w.scene.id}), lights |-> {}, mesh |-> 0,
                    model |-> FALSE, held |-> {}, environment |-> FALSE,
                    background |-> "none", rotation |-> <<0, 0>>, disposed |-> FALSE],
         !.envLoad = "pending",
         !.modelLoad = "pending"]

\* envLoader.load's callback: scene.current.environment = envMap
EnvLoadedCallback(w) ==
  [Said(w, "fromEquirectangular") EXCEPT
     !.scene.environment = TRUE,
     !.scene.held = @ \cup {"envTexture"},
     !.envLoad = "done"]

\* a callback of a loader that will report the same model again
ModelLoadedCallbackAgain(w) ==
  [Said(w, "addModel") EXCEPT
     !.scene.model = TRUE,
     !.scene.held = @ \cup {"modelGeometry", "modelMaterial"}]

\* modelLoader.load's callback: scene.current.add(model.scene)
ModelLoadedCallback(w) ==
  [Said(w, "addModel") EXCEPT
     !.scene.model = TRUE,
     !.scene.held = @ \cup {"modelGeometry", "modelMaterial"},
     !.modelLoad = "done"]

\* cleanScene(scene): every geometry, material and texture of the scene is disposed
CleanScene(w) ==
  [Said(w, "cleanScene") EXCEPT !.scene.held = {}, !.scene.disposed = TRUE]

\* cleanRenderer(renderer): renderer.dispose(), the context is given up
CleanRenderer(w) ==
  [Said(w, "cleanRenderer") EXCEPT !.renderer.context = FALSE]

\* the init effect's cleanup
PortraitInitCleanup(w) == CleanRenderer(CleanScene(w))

\* the lights of the portrait, from the theme
PortraitLights(theme, used) ==
  LET a == FreshId(used)
      d == FreshId(used \cup {a})
  IN  {[id |-> a, kind |-> "ambient", color |-> <<theme, "colorWhite">>, intensity |-> 8],
       [id |-> d, kind |-> "directional", color |-> <<theme, "colorWhite">>,
        intensity |-> IF theme = "light" THEN 16 ELSE 8]}

\* "Lights": lights.current = [ambientLight, dirLight], background, scene.add
PortraitLightsEffect(w, theme) ==
  LET ls == PortraitLights(theme, {l.id : l \in w.scene.lights})
  IN  [Said(w, "addLights") EXCEPT
         !.lights = ls,
         !.scene.background = <<theme, "rgbBackgroundLight">>,
         !.scene.lights = @ \cup ls]

\* removeLights(lights): every light is removed from its parent
RemoveLights(w) ==
  [Said(w, "removeLights") EXCEPT !.scene.lights = @ \ w.lights]

\* a lights effect that returns no cleanup
PortraitLightsCleanupNone(w) == w

\* the lights effect's cleanup
PortraitLightsCleanup(w) == RemoveLights(w)

\* handleResize, with the prefersReducedMotion its closure holds
HandleResize(w, reduced, vp) ==
  LET w1 == [w EXCEPT !.renderer.size = vp, !.camera.aspect = Ratio(vp)]
      w2 == [Said(Said(Said(w1, "setSize"), "aspect"), "updateProjectionMatrix") EXCEPT
               !.camera = UpdateProjectionMatrix(w1.camera)]
  IN  IF reduced THEN Render(w2) ELSE w2

\* "Handles window resize": addEventListener('resize', handleResize); handleResize()
PortraitResizeEffect(w, reduced, vp) ==
  LET id == FreshId({l.id : l \in Range(w.resizeL)})
      w1 == [Said(w, "addResizeListener") EXCEPT
               !.resizeL = Append(@, [id |-> id, fn |-> "handleResize", prm |-> reduced]),
               !.resizeH = id]
  IN  HandleResize(w1, reduced, vp)

\* the resize effect's cleanup: removeEventListener('resize', handleResize)
PortraitResizeCleanup(w) ==
  [Said(w, "removeResizeListener") EXCEPT
     !.resizeL = SelectSeq(@, LAMBDA l : l.id # w.resizeH)]

\* position.x, position.y of onMouseMove, in hundredths
PointerPosition(client, inner) == ((2 * client - inner) * 50) \div inner

\* no closure variable refers to a running spring any more
Released(ss) == [i \in DOMAIN ss |-> [ss[i] EXCEPT !.held = FALSE]]

\* spring({...}).start(rotationSpringValue): popmotion's start registers the new
\* action as the parent of the value it is started with, and a value stops the
\* parent it had (registerParent); the actions of other values run on
StartWith(ss, sp) == Append(SelectSeq(ss, LAMBDA old : ~old.held), sp)

\* onMouseMove: the value is created on the first move, and a new spring is
\* started with it and kept in rotationSpring
OnMouseMove(w, clientX, clientY, inner) ==
  LET to == <<PointerPosition(clientY, inner[2]) \div 2, PointerPosition(clientX, inner[1]) \div 2>>
  IN  [Said(w, "springStart") EXCEPT
         !.rotationSpringValue = TRUE,
         !.springs = StartWith(@, [to |-> to, held |-> TRUE]),
         !.rotationSpring = "spring"]

\* "Handle mouse move animation": rotationSpring and rotationSpringValue are new variables
PortraitMouseEffect(w, visible, reduced) ==
  LET id == FreshId(w.mouseL)
      w1 == [w EXCEPT !.rotationSpring = "undefined", !.springs = Released(@),
                      !.rotationSpringValue = FALSE, !.mouseH = id]
  IN  IF visible /\ ~reduced
      THEN [Said(w1, "addMouseListener") EXCEPT !.mouseL = @ \cup {id}]
      ELSE w1

\* a cleanup that removes the listener and leaves the spring running
PortraitMouseCleanupKeepsSpring(w) ==
  [Said(w, "removeMouseListener") EXCEPT !.mouseL = @ \ {w.mouseH}]

\* the mouse effect's cleanup: removeEventListener; rotationSpring?.stop()
PortraitMouseCleanup(w) ==
  LET w1 == [Said(w, "removeMouseListener") EXCEPT !.mouseL = @ \ {w.mouseH}]
  IN  IF w.rotationSpring # "undefined"
      THEN [Said(w1, "springStop") EXCEPT !.springs = SelectSeq(@, LAMBDA sp : ~sp.held)]
      ELSE w1

\* an animate that does not keep the id requestAnimationFrame returns
PortraitAnimateForgetful(w) == Render(RequestAnimationFrame(w, "animate"))

\* animate: animation = requestAnimationFrame(animate); renderer.render
PortraitAnimate(w) ==
  LET w1 == RequestAnimationFrame(w, "animate")
      id == CHOOSE i \in {c.id : c \in w1.raf} : i \notin {c.id : c \in w.raf}
  IN  Render([w1 EXCEPT !.animation = id])

\* "Handles renders"
PortraitRenderEffect(w, visible, reduced) ==
  LET w1 == [w EXCEPT !.animation = 0]
  IN  IF ~reduced /\ visible THEN PortraitAnimate(w1) ELSE Render(w1)

\* cancelAnimationFrame(id): nothing happens when no such callback is pending
CancelAnimationFrame(w, id) ==
  [Said(w, "cancelAnimationFrame") EXCEPT !.raf = {c \in @ : c.id # id}]

\* the render effect's cleanup
PortraitRenderCleanup(w) == CancelAnimationFrame(w, w.animation)

(***************************************************************************)
(* The state before the component mounts.                                  *)
(***************************************************************************)
ShaderIdle == [stage |-> "idle"]

Unmounted ==
  /\ phase = "unmounted"
  /\ renderer = NoObject
  /\ camera = NoObject
  /\ scene = NoObject
  /\ canvases = 0
  /\ particles = 0
  /\ psys = [i \in {} |-> 0]
  /\ lights = {}
  /\ resizeL = <<>>
  /\ resizeH = 0
  /\ mouseL = {}
  /\ mouseH = 0
  /\ raf = {}
  /\ animation = 0
  /\ springs = <<>>
  /\ rotationSpring = "undefined"
  /\ rotationSpringValue = FALSE
  /\ envLoad = "none"
  /\ modelLoad = "none"
  /\ log = <<>>
  /\ lastInput = "none"
  /\ renders = 0

Init ==
  /\ variant \in {"ambient", "portrait"}
  /\ prm \in BOOLEAN
  /\ inView \in (IF variant = "portrait" THEN BOOLEAN ELSE {TRUE})
  /\ themeId \in Themes
  /\ viewport \in Sizes
  /\ dims = viewport
  /\ Unmounted
  /\ sh = ShaderIdle

\* what an action leaves alone unless it says otherwise
Signals == <<variant, prm, inView, themeId, viewport, sh>>

(***************************************************************************)
(* RoboticsScene: the commits and callbacks.                               *)
(***************************************************************************)
AmbientMount ==
  /\ variant = "ambient" /\ phase = "unmounted"
  /\ \E seed \in Seeds :
       \E w1 \in {AmbientParticleEffect(Input(World), seed)} :
       \E w2 \in {AmbientSceneEffect(w1, themeId)} :
       \E w3 \in {AmbientResizeEffect(w2, prm)} :
       \E w4 \in {AmbientRenderEffect(w3, prm)} : Commit(w4)
  /\ phase' = "mounted"
  /\ lastInput' = "mount"
  /\ UNCHANGED Signals

\* currentTheme changes: the particle effect and the scene effect run
AmbientThemeChange ==
  /\ variant = "ambient" /\ phase = "mounted"
  /\ canvases < MaxCanvases
  /\ themeId' = OtherTheme(themeId)
  /\ \E seed \in Seeds :
       \E w1 \in {AmbientParticleEffect(Input(World), seed)} :
       \E w2 \in {AmbientSceneEffect(w1, themeId')} : Commit(w2)
  /\ lastInput' = "theme"
  /\ UNCHANGED <<variant, phase, prm, inView, viewport, sh>>

\* prefersReducedMotion changes: the particle, resize and render effects run
AmbientMotionChange ==
  /\ variant = "ambient" /\ phase = "mounted"
  /\ prm => Cardinality(raf) < MaxLoops
  /\ prm' = ~prm
  /\ \E seed \in Seeds :
       \E w1 \in {AmbientParticleEffect(Input(World), seed)} :
       \E w2 \in {AmbientResizeEffect(w1, prm')} :
       \E w3 \in {AmbientRenderEffect(w2, prm')} : Commit(w3)
  /\ lastInput' = "motion"
  /\ UNCHANGED <<variant, phase, inView, themeId, viewport, sh>>

\* another value of AppContext changes: only the particle effect runs
AmbientRerender ==
  /\ variant = "ambient" /\ phase = "mounted"
  /\ \E seed \in Seeds :
       \E w1 \in {AmbientParticleEffect(Input(World), seed)} : Commit(w1)
  /\ lastInput' = "rerender"
  /\ UNCHANGED <<phase, Signals>>

\* the component unmounts: no effect of RoboticsScene returns a cleanup
AmbientUnmount ==
  /\ variant = "ambient" /\ phase = "mounted"
  /\ \E w0 \in {Input(World)} : Commit(w0)
  /\ phase' = "disposed"
  /\ lastInput' = "unmount"
  /\ UNCHANGED Signals

(***************************************************************************)
(* Portrait: the commits and callbacks.                                    *)
(***************************************************************************)
PortraitMount ==
  /\ variant = "portrait" /\ phase = "unmounted"
  /\ \E w1 \in {PortraitInitEffect(Input(World), viewport)} :
     \E w2 \in {PortraitLightsEffect(w1, themeId)} :
     \E w3 \in {PortraitResizeEffect(w2, prm, viewport)} :
     \E w4 \in {PortraitMouseEffect(w3, inView, prm)} :
     \E w5 \in {PortraitRenderEffect(w4, inView, prm)} : Commit(w5)
  /\ phase' = "mounted"
  /\ lastInput' = "mount"
  /\ UNCHANGED Signals

\* the theme changes: the lights effect is cleaned up and runs again
PortraitThemeChange ==
  /\ variant = "portrait" /\ phase = "mounted"
  /\ themeId' = OtherTheme(themeId)
  /\ \E c1 \in {PortraitLightsCleanup(Input(World))} :
     \E w1 \in {PortraitLightsEffect(c1, themeId')} : Commit(w1)
  /\ lastInput' = "theme"
  /\ UNCHANGED <<variant, phase, prm, inView, viewport, sh>>

\* prefersReducedMotion changes: resize, mouse and render effects are cleaned up and run again
PortraitMotionChange ==
  /\ variant = "portrait" /\ phase = "mounted"
  /\ prm' = ~prm
  /\ \E c1 \in {PortraitResizeCleanup(Input(World))} :
     \E c2 \in {PortraitMouseCleanup(c1)} :
     \E c3 \in {PortraitRenderCleanup(c2)} :
     \E w1 \in {PortraitResizeEffect(c3, prm', viewport)} :
     \E w2 \in {PortraitMouseEffect(w1, inView, prm')} :
     \E w3 \in {PortraitRenderEffect(w2, inView, prm')} : Commit(w3)
  /\ lastInput' = "motion"
  /\ UNCHANGED <<variant, phase, inView, themeId, viewport, sh>>

\* isInViewport changes: mouse and render effects are cleaned up and run again
PortraitVisibilityChange ==
  /\ variant = "portrait" /\ phase = "mounted"
  /\ inView' = ~inView
  /\ \E c1 \in {PortraitMouseCleanup(Input(World))} :
     \E c2 \in {PortraitRenderCleanup(c1)} :
     \E w1 \in {PortraitMouseEffect(c2, inView', prm)} :
     \E w2 \in {PortraitRenderEffect(w1, inView', prm)} : Commit(w2)
  /\ lastInput' = "visibility"
  /\ UNCHANGED <<variant, phase, prm, themeId, viewport, sh>>

\* the component unmounts: every cleanup runs, in the order the effects are declared
PortraitUnmount ==
  /\ variant = "portrait" /\ phase = "mounted"
  /\ \E c1 \in {PortraitInitCleanup(Input(World))} :
     \E c2 \in {PortraitLightsCleanup(c1)} :
     \E c3 \in {PortraitResizeCleanup(c2)} :
     \E c4 \in {PortraitMouseCleanup(c3)} :
     \E c5 \in {PortraitRenderCleanup(c4)} : Commit(c5)
  /\ phase' = "disposed"
  /\ lastInput' = "unmount"
  /\ UNCHANGED Signals

\* a 'mousemove' event reaches the registered onMouseMove
MouseMove ==
  /\ phase # "unmounted"
  /\ mouseL # {}
  /\ \E corner \in {0, 1} :
       \E w1 \in {OnMouseMove(Input(World), corner * viewport[1], corner * viewport[2], viewport)} :
         Commit(w1)
  /\ lastInput' = "mouse"
  /\ UNCHANGED <<phase, Signals>>

\* a running spring passes its value on: rotation.set(x, y, rotation.z)
SpringUpdate ==
  /\ \E i \in DOMAIN springs :
       \E w1 \in {[Said(World, "rotation.set") EXCEPT !.scene.rotation = springs[i].to]} :
         Commit(w1)
  /\ UNCHANGED <<phase, lastInput, Signals>>

\* a running spring comes to rest
SpringComplete ==
  /\ \E i \in DOMAIN springs :
       \E w1 \in {[Said(World, "springComplete") EXCEPT
                     !.springs = SubSeq(@, 1, i - 1) \o SubSeq(@, i + 1, Len(@))]} :
         Commit(w1)
  /\ UNCHANGED <<phase, lastInput, Signals>>

\* the environment map arrives
EnvLoaded ==
  /\ envLoad = "pending"
  /\ \E w1 \in {EnvLoadedCallback(World)} : Commit(w1)
  /\ UNCHANGED <<phase, lastInput, Signals>>

\* the model arrives
ModelLoaded ==
  /\ modelLoad = "pending"
  /\ \E w1 \in {ModelLoadedCallback(World)} : Commit(w1)
  /\ UNCHANGED <<phase, lastInput, Signals>>

(***************************************************************************)
(* Browser callbacks both views receive.                                   *)
(***************************************************************************)
\* one listener of the 'resize' event
ResizeListener(w, l, vp) ==
  IF l.fn = "handleResize" THEN HandleResize(w, l.prm, vp) ELSE HandleWindowResize(w, vp)

RECURSIVE Dispatch(_, _, _)
Dispatch(w, ls, vp) ==
  IF ls = <<>> THEN w ELSE Dispatch(ResizeListener(w, Head(ls), vp), Tail(ls), vp)

\* the window is resized: every registered listener runs, in registration order
Resize ==
  /\ phase # "unmounted"
  /\ \E sz \in Sizes \ {viewport} :
       /\ viewport' = sz
       /\ \E w1 \in {Dispatch(Input(World), resizeL, sz)} : Commit(w1)
  /\ lastInput' = "resize"
  /\ UNCHANGED <<variant, phase, prm, inView, themeId, sh>>

\* an animation frame of the ambient view: a pending render is taken and run
AmbientTick ==
  /\ \E cb \in raf :
       /\ cb.fn = "render"
       /\ psys[particles].time < MaxTime
       /\ \E delta \in Deltas :
          \E w \in {[World EXCEPT !.raf = @ \ {cb}]} :
          \E w1 \in {AmbientRender(w, delta)} : Commit(w1)
  /\ UNCHANGED <<phase, lastInput, Signals>>

\* an animation frame of the portrait: a pending animate is taken and run
PortraitTick ==
  /\ \E cb \in raf :
       /\ cb.fn = "animate"
       /\ \E w \in {[World EXCEPT !.raf = @ \ {cb}]} :
          \E w1 \in {PortraitAnimate(w)} : Commit(w1)
  /\ UNCHANGED <<phase, lastInput, Signals>>

(***************************************************************************)
(* The shader stage of the particle material (part_000 lines 134-135).     *)
(* `precision highp float`: values are IEEE single precision numbers, here *)
(* integers in units of 2^-FracBits, and every operation rounds its exact  *)
(* result to the nearest number of FloatBits significant bits, ties to     *)
(* even.                                                                   *)
(***************************************************************************)
\* significant bits of a highp float
FloatBits == 24
\* the unit of the model's numbers is 2^-FracBits: a quarter of the spacing of the
\* floats just below 1
FracBits == FloatBits + 2

RECURSIVE Pow2(_)
Pow2(n) == IF n = 0 THEN 1 ELSE 2 * Pow2(n - 1)

One == Pow2(FracBits)

\* the number of bits of a > 0
RECURSIVE BitLength(_)
BitLength(a) == IF a = 0 THEN 0 ELSE 1 + BitLength(a \div 2)

Abs(n) == IF n < 0 THEN -n ELSE n

\* the exact value n rounded to a float
RoundFloat(n) ==
  LET a == Abs(n)
      shift == BitLength(a) - FloatBits
  IN  IF shift <= 0 THEN n
      ELSE LET q == a \div Pow2(shift)
               r == a % Pow2(shift)
               half == Pow2(shift - 1)
               up == r > half \/ (r = half /\ q % 2 = 1)
               m == (IF up THEN q + 1 ELSE q) * Pow2(shift)
           IN  IF n < 0 THEN -m ELSE m

IsFloat(n) == RoundFloat(n) = n

\* floor(x)
Floor(x) == (x \div One) * One

\* x + y
FAdd(x, y) == RoundFloat(x + y)

\* GLSL mod(x, 1.0) = x - 1.0 * floor(x / 1.0)
Mod1(x) == RoundFloat(x - Floor(x))

\* lifeProgress = mod(time + timeOffset, 1.0)
LifeProgress(time, timeOffset) == Mod1(FAdd(time, timeOffset))

\* values of the time uniform: Math.sin(this.time) lies in [-1, 1], and 5.0 is the
\* uniform's initial value
TimeValues ==
  {-One, -(One \div 2), -(One \div 4), -(One \div 4) - 2, -1, 0, 1, One \div 4,
   One \div 2, One, 5 * One}

\* values of timeOffset: Math.random() in [0, 1), stored in a Float32Array
TimeOffsetValues ==
  {0, 1, (One \div 4) - 1, One \div 4, One \div 2, (One \div 2) + 4, One - 4}

InitShader ==
  /\ variant = "ambient"
  /\ prm = FALSE /\ inView = TRUE /\ themeId = "dark"
  /\ viewport = <<4, 3>> /\ dims = viewport
  /\ Unmounted
  /\ \E t \in TimeValues, o \in TimeOffsetValues :
       sh = [stage |-> "attributes", time |-> t, timeOffset |-> o, lifeProgress |-> 0]

\* the vertex stage runs for one instance
VertexShader ==
  /\ sh.stage = "attributes"
  /\ sh' = [sh EXCEPT !.stage = "vertex", !.lifeProgress = LifeProgress(sh.time, sh.timeOffset)]
  /\ UNCHANGED <<variant, phase, prm, inView, themeId, viewport, dims, renderer,
                 camera, scene, canvases, particles, psys, lights, resizeL, resizeH,
                 mouseL, mouseH, raf, animation, springs, rotationSpring,
                 rotationSpringValue, envLoad, modelLoad, log, lastInput, renders>>

Min(a, b) == IF a < b THEN a ELSE b

Max(a, b) == IF a < b THEN b ELSE a

\* GLSL clamp(x, minVal, maxVal): min(max(x, minVal), maxVal); the result is
\* undefined when minVal > maxVal, where implementations return either that
\* or max(min(x, maxVal), minVal)
Clamp(x, minVal, maxVal) ==
  IF minVal > maxVal
  THEN {Min(Max(x, minVal), maxVal), Max(Min(x, maxVal), minVal)}
  ELSE {Min(Max(x, minVal), maxVal)}

\* the float 0.2
Fifth == RoundFloat((One + 2) \div 5)

\* float opacity = clamp(0.2, 1.0, depth)
Opacity(depth) == Clamp(Fifth, One, depth)

\* values of depth = gl_FragCoord.z / gl_FragCoord.w / 5.0, which is not negative
DepthValues ==
  {0, One \div 8, Fifth - 1, Fifth, Fifth + 1, One \div 2, One - 4, One, One + 8, 2 * One}

\* the fragment stage runs for one fragment of the instance
FragmentShader ==
  /\ sh.stage = "vertex"
  /\ \E depth \in DepthValues : \E opacity \in Opacity(depth) :
       sh' = [stage |-> "fragment", time |-> sh.time, timeOffset |-> sh.timeOffset,
              lifeProgress |-> sh.lifeProgress, depth |-> depth, opacity |-> opacity]
  /\ UNCHANGED <<variant, phase, prm, inView, themeId, viewport, dims, renderer,
                 camera, scene, canvases, particles, psys, lights, resizeL, resizeH,
                 mouseL, mouseH, raf, animation, springs, rotationSpring,
                 rotationSpringValue, envLoad, modelLoad, log, lastInput, renders>>

NextShader == VertexShader \/ FragmentShader

SpecShader == InitShader /\ [][NextShader]_vars

(***************************************************************************)
(* The specifications: one view per behaviour.                             *)
(***************************************************************************)
InitAmbient == Init /\ variant = "ambient"

NextAmbient ==
  \/ AmbientMount
  \/ AmbientThemeChange
  \/ AmbientMotionChange
  \/ AmbientRerender
  \/ AmbientUnmount
  \/ AmbientTick
  \/ Resize

SpecAmbient == InitAmbient /\ [][NextAmbient]_vars

InitPortrait == Init /\ variant = "portrait"

NextPortrait ==
  \/ PortraitMount
  \/ PortraitThemeChange
  \/ PortraitMotionChange
  \/ PortraitVisibilityChange
  \/ PortraitUnmount
  \/ PortraitTick
  \/ MouseMove
  \/ SpringUpdate
  \/ SpringComplete
  \/ EnvLoaded
  \/ ModelLoaded
  \/ Resize

SpecPortrait == InitPortrait /\ [][NextPortrait]_vars

Next == NextAmbient \/ NextPortrait

Spec == Init /\ [][Next]_vars

(***************************************************************************)
(* What the claims speak of.                                               *)
(***************************************************************************)
\* the geometries, materials and textures the scene holds, and the renderer's context
GpuResources ==
  IF phase = "unmounted" THEN 0
  ELSE Cardinality(scene.held) + (IF renderer.context THEN 1 ELSE 0)

\* the particle geometry attached to the scene
AttachedGeometry ==
  IF phase # "unmounted" /\ scene.mesh \in DOMAIN psys
  THEN <<scene.mesh, psys[scene.mesh].geometry>>
  ELSE <<0>>

\* what a set of lights is made of, whichever objects they are
Facets(ls) == {[kind |-> l.kind, color |-> l.color, intensity |-> l.intensity] : l \in ls}

\* the lights the view builds for a theme
ThemeLights(v, theme) ==
  IF v = "ambient" THEN AmbientLights(theme) ELSE PortraitLights(theme, {})

\* the render effect's cleanup, invoked n times in succession
RECURSIVE StopTimes(_, _)
StopTimes(w, n) == IF n = 0 THEN w ELSE StopTimes(PortraitRenderCleanup(w), n - 1)

\* the five per-instance attributes of a particle system's geometry
InstanceAttributes(p) ==
  <<p.geometry.offset, p.geometry.color, p.geometry.timeOffset,
    p.geometry.orientationStart, p.geometry.orientationEnd>>

(***************************************************************************)
(* C1: a view mounted with the motion preference reduced never schedules a *)
(* frame callback and, until the next input, has rendered exactly once,    *)
(* after the initial resize call.                                          *)
(***************************************************************************)
C1_ReducedMountRendersOnce ==
  (lastInput = "mount" /\ prm) =>
    /\ raf = {}
    /\ renders = 1
    /\ "new WebGLRenderer" \in Range(log) =>
         /\ First("updateProjectionMatrix", log) # 0
         /\ First("updateProjectionMatrix", log) < First("render", log)

(***************************************************************************)
(* C2: the cleanup of the portrait's render effect, invoked any number of  *)
(* times in succession from any reachable state, leaves no pending frame   *)
(* callback (invoking it again changes nothing), and none is pending once  *)
(* the view is unmounted.                                                  *)
(***************************************************************************)
C2_StopIdempotent ==
  /\ \A n \in 1..MaxStops :
       /\ StopTimes(World, n).raf = {}
       /\ StopTimes(World, n + 1).raf = StopTimes(World, n).raf
  /\ phase = "disposed" => raf = {}

\* a running loop has been stopped by the unmount
C2_Witness ==
  /\ variant = "portrait" /\ phase = "disposed"
  /\ lastInput = "unmount" /\ "cancelAnimationFrame" \in Range(log)
  /\ animation # 0
  /\ raf = {}

(***************************************************************************)
(* C3: a theme change on a mounted view leaves the camera, the renderer    *)
(* and the particle geometry the same objects with the same contents.      *)
(***************************************************************************)
C3_ThemeChangeKeepsScene ==
  [][(phase = "mounted" /\ themeId' # themeId) =>
       /\ camera' = camera
       /\ renderer' = renderer
       /\ AttachedGeometry' = AttachedGeometry]_vars

(***************************************************************************)
(* C4: once a view is unmounted its scene and renderer hold no GPU         *)
(* resource, whenever the loads complete.                                  *)
(***************************************************************************)
C4_DisposedHoldsNothing == phase = "disposed" => GpuResources = 0

(***************************************************************************)
(* C5: once a view is unmounted no action updates or renders it.           *)
(***************************************************************************)
C5_NoTickAfterDispose ==
  phase = "disposed" => ("render" \notin Range(log) /\ "update" \notin Range(log))

(***************************************************************************)
(* C6: when the portrait releases its GPU resources, the pending frame     *)
(* callback has been cancelled and the springs stopped before the release, *)
(* and no spring is left running.                                          *)
(***************************************************************************)
C6_CancelBeforeRelease ==
  "cleanScene" \in Range(log) =>
    /\ First("cancelAnimationFrame", log) # 0
    /\ First("cancelAnimationFrame", log) < First("cleanScene", log)
    /\ First("springStop", log) # 0 => First("springStop", log) < First("cleanScene", log)
    /\ springs = <<>>

(***************************************************************************)
(* C7: after a resize event delivered to a mounted view the renderer size  *)
(* is the new size, the camera aspect is width / height, and the           *)
(* projection has been recomputed from that aspect.                        *)
(***************************************************************************)
C7_ResizeApplied ==
  (lastInput = "resize" /\ phase = "mounted") =>
    /\ renderer.size = viewport
    /\ camera.aspect = Ratio(viewport)
    /\ camera.proj.aspect = Ratio(viewport)

(***************************************************************************)
(* C8: once the motion preference has become reduced, or the element has   *)
(* left the viewport, no frame callback is pending and exactly one render  *)
(* has been made since that transition.                                    *)
(***************************************************************************)
C8_OneRenderOnPause ==
  (phase = "mounted" /\ ((lastInput = "motion" /\ prm) \/ (lastInput = "visibility" /\ ~inView))) =>
    /\ raf = {}
    /\ renders = 1

(***************************************************************************)
(* C9: the lifeProgress the vertex stage computes lies in [0, 1).          *)
(***************************************************************************)
C9_LifeProgressInUnitInterval ==
  sh.stage = "vertex" => (0 <= sh.lifeProgress /\ sh.lifeProgress < One)

(***************************************************************************)
(* C10: every particle system has exactly Instances entries in each of its *)
(* five per-instance attribute arrays, each array advances one entry per   *)
(* instance (so index i is the same particle in all of them), and no entry *)
(* of an existing system ever changes.                                     *)
(***************************************************************************)
C10_InstanceAttributes ==
  /\ [](\A id \in DOMAIN psys : \A k \in DOMAIN InstanceAttributes(psys[id]) :
          LET a == InstanceAttributes(psys[id])[k]
          IN  /\ a.count = Instances
              /\ Len(a.array) = Instances * a.itemSize
              /\ a.meshPerAttribute = 1)
  /\ [][\A id \in DOMAIN psys \cap DOMAIN psys' :
          psys'[id].geometry = psys[id].geometry]_vars

\* a system that has been updated since it was built, beside a newer one
C10_Witness ==
  /\ Cardinality(DOMAIN psys) = 2
  /\ \E id \in DOMAIN psys :
       /\ psys[id].time >= 1
       /\ psys[id].geometry.offset.count = Instances

(***************************************************************************)
(* C11: a frame callback is pending only while the motion preference is    *)
(* not reduced and, for the portrait, the canvas is within the viewport.   *)
(***************************************************************************)
C11_RunningOnlyWhenAllowed ==
  raf # {} => (~prm /\ (variant = "portrait" => inView))

(***************************************************************************)
(* C12: the ambient view never has more than one frame callback pending,   *)
(* and an animation frame advances the time accumulator of the current     *)
(* particle system by one step only.                                       *)
(***************************************************************************)
C12_OneLoop ==
  variant = "ambient" => Cardinality(raf) <= 1

C14_NoSpringAfterRemoval ==
  /\ []("removeMouseListener" \in Range(log) => springs = <<>>)
  /\ []((phase # "unmounted" /\ mouseL = {}) => springs = <<>>)
  /\ [][(phase # "unmounted" /\ mouseL = {}) => scene'.rotation = scene.rotation]_vars

\* a spring that had turned the scene was stopped when the listener was removed
C14_Witness ==
  /\ lastInput \in {"unmount", "motion", "visibility"}
  /\ "removeMouseListener" \in Range(log) /\ "springStop" \in Range(log)
  /\ mouseL = {}
  /\ scene.rotation # <<0, 0>>

(***************************************************************************)
(* C15: a mounted view has at most one resize listener and at most one     *)
(* pointer-move listener on the window, and an unmounted view has none.    *)
(***************************************************************************)
C15_ListenersBalanced ==
  /\ Len(resizeL) <= 1
  /\ Cardinality(mouseL) <= 1
  /\ phase = "disposed" => (resizeL = <<>> /\ mouseL = {})

(***************************************************************************)
(* C16: in the portrait every render call finds the renderer, the scene    *)
(* and the camera in place, whichever of the environment map and the model *)
(* have arrived; the scene holds the environment exactly when its load has *)
(* completed and the model exactly when its load has completed, and a      *)
(* completed load never completes again.                                   *)
(***************************************************************************)
C16_RenderToleratesLoads ==
  /\ []((variant = "portrait" /\ "render" \in Range(log)) =>
          /\ renderer.id # 0 /\ scene.id # 0 /\ camera.id # 0
          /\ "new Scene" \in Range(log) => Last("new Scene", log) < First("render", log))
  /\ []((variant = "portrait" /\ phase # "unmounted") =>
          /\ scene.environment <=> envLoad = "done"
          /\ scene.model <=> modelLoad = "done")
  /\ [][(variant = "portrait" /\ phase # "unmounted") =>
          /\ envLoad = "done" => (envLoad' = "done" /\ "fromEquirectangular" \notin Range(log'))
          /\ modelLoad = "done" => (modelLoad' = "done" /\ "addModel" \notin Range(log'))]_vars

\* a frame is rendered with the model in the scene and the environment map still loading
C16_Witness ==
  /\ variant = "portrait" /\ phase = "mounted"
  /\ log = <<"requestAnimationFrame", "render">>
  /\ modelLoad = "done" /\ envLoad = "pending"
  /\ scene.model /\ ~scene.environment

(***************************************************************************)
(* C17: the scene of a mounted view contains exactly one ambient light and *)
(* exactly one directional light, and they are the lights the view builds  *)
(* for the theme that is active now.                                       *)
(***************************************************************************)
C17_LightsOfActiveTheme ==
  phase = "mounted" =>
    /\ Cardinality(scene.lights) = 2
    /\ Cardinality({l \in scene.lights : l.kind = "ambient"}) = 1
    /\ Cardinality({l \in scene.lights : l.kind = "directional"}) = 1
    /\ Facets(scene.lights) = Facets(ThemeLights(variant, themeId))

\* the portrait has replaced its lights for the light theme
C17_Witness ==
  /\ variant = "portrait" /\ phase = "mounted"
  /\ lastInput = "theme" /\ themeId = "light"
  /\ log = <<"removeLights", "addLights">>
  /\ \E l \in scene.lights : l.kind = "directional" /\ l.intensity = 16

(***************************************************************************)
(* C18: the opacity factor the fragment stage derives from the depth is    *)
(* the depth clamped to [0.2, 1.0]: at least 0.2, at most 1.0, and the     *)
(* depth itself in between.                                                *)
(***************************************************************************)
C18_OpacityClamped ==
  sh.stage = "fragment" =>
    /\ Fifth <= sh.opacity /\ sh.opacity <= One
    /\ sh.opacity = Min(Max(sh.depth, Fifth), One)

(***************************************************************************)
(* C19: in every step each update call advances the accumulator of the     *)
(* current particle system by one fixed step, whatever the delta, and      *)
(* publishes sin(time) in the time uniform; a system built in the step     *)
(* starts from 0; nothing else of any system changes (its attribute        *)
(* buffers, its mesh and its other uniform stay as they were).             *)
(***************************************************************************)
C19_FixedStep ==
  [][\A id \in DOMAIN psys' :
       LET calls == IF id = particles' THEN Count("update", log') ELSE 0
           before == IF id \in DOMAIN psys THEN psys[id] ELSE Constructed[0]
           p == psys'[id]
       IN  /\ p.time = before.time + calls
           /\ calls > 0 => p.uniforms.time = <<"sin", p.time>>
           /\ calls = 0 => p.uniforms.time = before.uniforms.time
           /\ p.uniforms.sineTime = before.uniforms.sineTime
           /\ id \in DOMAIN psys =>
                /\ p.geometry = before.geometry
                /\ p.mesh = before.mesh]_vars

\* two frame callbacks have advanced the current particle system after its first update
C19_Witness ==
  /\ variant = "ambient" /\ phase = "mounted"
  /\ particles \in DOMAIN psys
  /\ psys[particles].time = 2
  /\ psys[particles].uniforms.time = <<"sin", 2>>
  /\ "update" \in Range(log)

(***************************************************************************)
(* C20: whenever the ambient loop updates a particle system, that system   *)
(* is the one whose mesh is attached to the scene being rendered.          *)
(***************************************************************************)
C20_UpdatedIsAttached ==
  (variant = "ambient" /\ "update" \in Range(log)) => scene.mesh = particles

====
